---- MODULE Spec2Model ----
(***************************************************************************)
(* prefect/utilities/collections.py: merge_dicts, DotDict, to_dotdict,     *)
(* CompoundKey, dict_to_flatdict and flatdict_to_dict.                     *)
(*                                                                         *)
(* A Python dict is an insertion-ordered sequence of items [k, v].  A key  *)
(* is a record [kind, segs]: a str "a" is [kind |-> "str", segs |-> <<"a">>],*)
(* a plain tuple ("a","b") has kind "tuple" and a CompoundKey kind "ck".   *)
(* An exception is the err field of an operation's outcome ("" = none).    *)
(***************************************************************************)
EXTENDS Integers, Sequences, FiniteSets, TLC

VARIABLES dot, mrg, flt, cnv

vars == <<dot, mrg, flt, cnv>>

\* ------------------------------------------------------------------ keys
Str(s) == [kind |-> "str", segs |-> <<s>>]
Tup(q) == [kind |-> "tuple", segs |-> q]
CompoundKey(q) == [kind |-> "ck", segs |-> q]

\* ------------------------------------------------- the builtin dict's items
Ok(d) == [d |-> d, err |-> ""]
Raise(d, e) == [d |-> d, err |-> e]

KeysOf(items) == {items[i].k : i \in 1..Len(items)}

IndexOf(items, k) ==
  IF \E i \in 1..Len(items) : items[i].k = k
  THEN CHOOSE i \in 1..Len(items) : items[i].k = k
  ELSE 0

\* d[k] = v of a dict: an existing key keeps its position, a new one is appended
dict_setitem(items, k, v) ==
  IF IndexOf(items, k) = 0
  THEN Append(items, [k |-> k, v |-> v])
  ELSE [items EXCEPT ![IndexOf(items, k)] = [k |-> k, v |-> v]]

\* del d[k] of a dict that holds k
dict_delitem(items, k) ==
  LET i == IndexOf(items, k)
  IN  SubSeq(items, 1, i - 1) \o SubSeq(items, i + 1, Len(items))

\* --------------------------------------------------------------- DotDict
\* the names hasattr(MutableMapping, name) answers True for
MutableMappingAttrs ==
  {"clear", "get", "items", "keys", "pop", "popitem", "setdefault", "update",
   "values", "__class__", "__contains__", "__delitem__", "__dict__", "__eq__",
   "__getitem__", "__init__", "__iter__", "__len__", "__setitem__"}

\* the names DotDict itself defines and MutableMapping does not
DotDictOwnAttrs == {"copy"}

\* hasattr(MutableMapping, key): "TypeError" for a key that is no str
hasattr_MutableMapping(key) ==
  IF key.kind # "str" THEN "TypeError"
  ELSE IF key.segs[1] \in MutableMappingAttrs THEN "yes" ELSE "no"

DotDict__getitem__(self, key) ==
  IF IndexOf(self, key) = 0 THEN [v |-> 0, err |-> "KeyError"]
  ELSE [v |-> self[IndexOf(self, key)].v, err |-> ""]

\* __setitem__ without its hasattr check
SetitemSkipsCheck(self, key, value) == Ok(dict_setitem(self, key, value))

DotDict__setitem__(self, key, value) ==
  CASE hasattr_MutableMapping(key) = "TypeError" -> Raise(self, "TypeError")
    [] hasattr_MutableMapping(key) = "yes" -> Raise(self, "ValueError")
    [] OTHER -> Ok(dict_setitem(self, key, value))

\* object.__setattr__: the instance dictionary written with no check
SetattrDefault(self, attr, value) == Ok(dict_setitem(self, attr, value))

DotDict__setattr__(self, attr, value) == DotDict__setitem__(self, attr, value)

DotDict__iter__(self) == [i \in 1..Len(self) |-> self[i].k]

DotDict__delitem__(self, key) ==
  IF IndexOf(self, key) = 0 THEN Raise(self, "KeyError")
  ELSE Ok(dict_delitem(self, key))

DotDict__len__(self) == Len(self)

\* m.name: the instance dictionary first, then the class
DotDict_getattr(self, name) ==
  CASE IndexOf(self, name) # 0 ->
         [kind |-> "value", v |-> self[IndexOf(self, name)].v, err |-> ""]
    [] IndexOf(self, name) = 0 /\ name.kind = "str"
         /\ name.segs[1] \in MutableMappingAttrs \cup DotDictOwnAttrs ->
         [kind |-> "method", v |-> 0, err |-> ""]
    [] OTHER -> [kind |-> "none", v |-> 0, err |-> "AttributeError"]

\* MutableMapping.update(self, other): self[key] = other[key] for each key of
\* other, in its order, up to the first that raises
RECURSIVE MutableMapping_update(_, _)
MutableMapping_update(self, other) ==
  IF other = <<>> THEN Ok(self)
  ELSE LET r == DotDict__setitem__(self, other[1].k, other[1].v)
       IN  IF r.err # "" THEN r ELSE MutableMapping_update(r.d, Tail(other))

DotDict__init__(init_dict, kwargs) ==
  LET r == IF init_dict # <<>> THEN MutableMapping_update(<<>>, init_dict)
           ELSE Ok(<<>>)
  IN  IF r.err # "" THEN r ELSE MutableMapping_update(r.d, kwargs)

\* self.copy(): a key "copy" of the instance shadows the method, and calling
\* the value stored there raises TypeError
DotDict_copy(self) ==
  IF DotDict_getattr(self, Str("copy")).kind = "value"
  THEN Raise(<<>>, "TypeError")
  ELSE DotDict__init__(self, <<>>)

\* Mapping.get(self, key): self[key], None on KeyError
Mapping_get(self, key) == DotDict__getitem__(self, key)

\* ------------------------------------------------------- merge_dicts
\* The heap is a sequence of mapping objects [type, items], type "dict" or
\* "DotDict"; a reference is an index into it.  A value held by an object is
\* [tag |-> "int", n |-> i] or [tag |-> "ref", n |-> r]; None is NoneVal.
IntVal(i) == [tag |-> "int", n |-> i]
RefVal(r) == [tag |-> "ref", n |-> r]
NoneVal == [tag |-> "none", n |-> 0]

Returned(h, r) == [h |-> h, ret |-> r, err |-> ""]
Raised(h, e) == [h |-> h, ret |-> 0, err |-> e]

\* no value taken for a mapping: every key of d2 replaces, none is merged
NeverMapping(h, v) == FALSE

\* isinstance(v, MutableMapping): dict and DotDict both are
isinstance_MutableMapping(h, v) == v.tag = "ref"

\* new_dict.get(k): dict.get, or Mapping.get over DotDict.__getitem__
obj_get(h, r, k) ==
  LET got == Mapping_get(h[r].items, k)
  IN  IF got.err = "" THEN got.v ELSE NoneVal

\* new_dict = d1 in place of d1.copy()
CopyAliases(h, r) == Returned(h, r)

\* d1.copy(): dict.copy, or DotDict.copy, as a new object of the same type
obj_copy(h, r) ==
  LET c == IF h[r].type = "DotDict" THEN DotDict_copy(h[r].items)
           ELSE Ok(h[r].items)
  IN  IF c.err # "" THEN Raised(h, c.err)
      ELSE Returned(Append(h, [type |-> h[r].type, items |-> c.d]), Len(h) + 1)

\* new_dict[k] = v: dict.__setitem__ or DotDict.__setitem__
obj_setitem(h, r, k, v) ==
  LET w == IF h[r].type = "DotDict" THEN DotDict__setitem__(h[r].items, k, v)
           ELSE Ok(dict_setitem(h[r].items, k, v))
  IN  IF w.err # "" THEN Raised(h, w.err)
      ELSE Returned([h EXCEPT ![r].items = w.d], r)

RECURSIVE merge_dicts(_, _, _)
RECURSIVE merge_loop(_, _, _, _)

\* the loop of merge_dicts from the i-th item of d2 on
merge_loop(h, new_dict, d2, i) ==
  IF i > Len(h[d2].items) THEN Returned(h, new_dict)
  ELSE LET k == h[d2].items[i].k
           v == h[d2].items[i].v
           cur == obj_get(h, new_dict, k)
       IN  IF isinstance_MutableMapping(h, cur) /\ isinstance_MutableMapping(h, v)
           THEN LET sub == merge_dicts(h, cur.n, v.n)
                IN  IF sub.err # "" THEN sub
                    ELSE LET w == obj_setitem(sub.h, new_dict, k, RefVal(sub.ret))
                         IN  IF w.err # "" THEN w
                             ELSE merge_loop(w.h, new_dict, d2, i + 1)
           ELSE LET w == obj_setitem(h, new_dict, k, v)
                IN  IF w.err # "" THEN w
                    ELSE merge_loop(w.h, new_dict, d2, i + 1)

merge_dicts(h, d1, d2) ==
  LET c == obj_copy(h, d1)
  IN  IF c.err # "" THEN c ELSE merge_loop(c.h, c.ret, d2, 1)

\* ------------------------------------- dict_to_flatdict, flatdict_to_dict
\* Here a value is a tree [tag, n, items]: an int (tag "int", n its value), a
\* dict or a DotDict (items its entries, values trees again), or a list, tuple
\* or set (items its elements, under the key NoKey).  Every value occurrence
\* is an object of its own (no two places hold the same object).  A segment
\* of a CompoundKey is the name s of the str key Str(s).
IntT(i) == [tag |-> "int", n |-> i, items |-> <<>>]
MapT(type, items) == [tag |-> type, n |-> 0, items |-> items]
OkT(t) == [t |-> t, err |-> ""]
RaiseT(t, e) == [t |-> t, err |-> e]

\* dict(items): the pairs set one after the other
RECURSIVE dict_of(_, _)
dict_of(pairs, acc) ==
  IF pairs = <<>> THEN acc
  ELSE dict_of(Tail(pairs), dict_setitem(acc, pairs[1].k, pairs[1].v))

\* no descent: every value of dct kept as a leaf under its own key
FlattenNoDescent(dct, parent) ==
  dict_of([i \in 1..Len(dct) |->
             [k |-> CompoundKey(parent \o dct[i].k.segs), v |-> dct[i].v]], <<>>)

RECURSIVE dict_to_flatdict(_, _)
RECURSIVE flatten_loop(_, _, _, _)

\* the loop of dict_to_flatdict from the i-th item of dct on; items is the list
flatten_loop(dct, parent, i, items) ==
  IF i > Len(dct) THEN items
  ELSE LET k_parent == CompoundKey(parent \o dct[i].k.segs)
           v == dct[i].v
       IN  IF v.tag = "dict"
           THEN flatten_loop(dct, parent, i + 1,
                             items \o dict_to_flatdict(v.items, k_parent.segs))
           ELSE flatten_loop(dct, parent, i + 1,
                             Append(items, [k |-> k_parent, v |-> v]))

\* dct: the items of the dict; parent: the segments of the parent key (<<>>
\* for None)
dict_to_flatdict(dct, parent) == dict_of(flatten_loop(dct, parent, 1, <<>>), <<>>)

\* current_dict[key] = v, whatever current_dict is
tree_setitem(cur, key, v) ==
  CASE cur.tag = "dict" -> OkT(MapT("dict", dict_setitem(cur.items, key, v)))
    [] cur.tag = "DotDict" ->
         LET w == DotDict__setitem__(cur.items, key, v)
         IN  RaiseT(MapT("DotDict", w.d), w.err)
    [] OTHER -> RaiseT(cur, "TypeError")

\* current_dict.setdefault(key, default): dict.setdefault, or
\* MutableMapping.setdefault (self[key], and on KeyError self[key] = default);
\* t is current_dict afterwards, child what the call returns
tree_setdefault(cur, key, default) ==
  CASE cur.tag \in {"dict", "DotDict"} /\ IndexOf(cur.items, key) # 0 ->
         [t |-> cur, child |-> cur.items[IndexOf(cur.items, key)].v, err |-> ""]
    [] cur.tag \in {"dict", "DotDict"} /\ IndexOf(cur.items, key) = 0 ->
         LET w == tree_setitem(cur, key, default)
         IN  [t |-> w.t, child |-> default, err |-> w.err]
    [] OTHER -> [t |-> cur, child |-> cur, err |-> "AttributeError"]

\* lines 134-136 from current_dict = cur on, for the segments segs still to
\* go (at least one): cur as it is once the value is set
RECURSIVE walk(_, _, _, _)
walk(cur, segs, v, dct_class) ==
  IF Len(segs) = 1 THEN tree_setitem(cur, Str(segs[1]), v)
  ELSE LET sd == tree_setdefault(cur, Str(segs[1]), MapT(dct_class, <<>>))
       IN  IF sd.err # "" THEN RaiseT(cur, sd.err)
           ELSE LET sub == walk(sd.child, Tail(segs), v, dct_class)
                    at == IndexOf(sd.t.items, Str(segs[1]))
                IN  IF sub.err # "" THEN RaiseT(cur, sub.err)
                    ELSE OkT([sd.t EXCEPT !.items[at].v = sub.t])

\* every key taken for a plain one
EntryNeverCompound(result, k, v, dct_class) == tree_setitem(result, k, v)

\* one turn of the loop of flatdict_to_dict: the entry (k, v) applied to result
unflatten_entry(result, k, v, dct_class) ==
  IF k.kind = "ck"
  THEN IF k.segs = <<>> THEN RaiseT(result, "IndexError")
       ELSE walk(result, k.segs, v, dct_class)
  ELSE tree_setitem(result, k, v)

RECURSIVE unflatten_loop(_, _, _, _)
unflatten_loop(dct, dct_class, i, result) ==
  IF i > Len(dct) THEN OkT(result)
  ELSE LET r == unflatten_entry(result, dct[i].k, dct[i].v, dct_class)
       IN  IF r.err # "" THEN r ELSE unflatten_loop(dct, dct_class, i + 1, r.t)

\* the entries taken last to first
UnflattenBackwards(dct, dct_class) ==
  unflatten_loop([i \in 1..Len(dct) |-> dct[Len(dct) + 1 - i]], dct_class, 1,
                 MapT(dct_class, <<>>))

\* dct_class: "dict" (also for None) or "DotDict"
flatdict_to_dict(dct, dct_class) ==
  unflatten_loop(dct, dct_class, 1, MapT(dct_class, <<>>))

\* ------------------------------------------------------------ to_dotdict
\* the key of the items that hold the elements of a list, tuple or set
NoKey == [kind |-> "index", segs |-> <<>>]

\* isinstance(obj, MutableMapping) in place of isinstance(obj, dict)
ConvertsDotDictToo(obj) == obj.tag \in {"dict", "DotDict"}

\* isinstance(obj, dict): a DotDict is a MutableMapping and no dict
isinstance_dict(obj) == obj.tag = "dict"

RECURSIVE to_dotdict(_)
RECURSIVE convert_items(_, _, _)

\* the comprehensions of lines 86 and 88: to_dotdict of each value of items
\* from the i-th on, in order, up to the first that raises
convert_items(items, i, done) ==
  IF i > Len(items) THEN Ok(done)
  ELSE LET r == to_dotdict(items[i].v)
       IN  IF r.err # "" THEN Raise(done, r.err)
           ELSE convert_items(items, i + 1,
                              Append(done, [k |-> items[i].k, v |-> r.t]))

to_dotdict(obj) ==
  CASE obj.tag \in {"list", "tuple", "set"} ->
         LET r == convert_items(obj.items, 1, <<>>)
         IN  IF r.err # "" THEN RaiseT(obj, r.err) ELSE OkT(MapT(obj.tag, r.d))
    [] isinstance_dict(obj) ->
         LET r == convert_items(obj.items, 1, <<>>)
             made == DotDict__init__(r.d, <<>>)
         IN  IF r.err # "" THEN RaiseT(obj, r.err)
             ELSE IF made.err # "" THEN RaiseT(obj, made.err)
             ELSE OkT(MapT("DotDict", made.d))
    [] OTHER -> OkT(obj)

\* ------------------------------------------------ bounds and input sets
\* the longest source mapping and the most explicit pairs a constructor gets
MaxInit == 2

DotKeys == {Str("a"), Str("b"), Str("copy"), Str("items")}
DotVals == {1, 2}

\* the insertion-ordered dicts of at most n items over keys and vals
RECURSIVE ItemSeqs(_, _, _)
ItemSeqs(keys, vals, n) ==
  IF n = 0 THEN {<<>>}
  ELSE LET shorter == ItemSeqs(keys, vals, n - 1)
       IN  shorter \cup
           UNION {{Append(p, [k |-> k, v |-> v]) :
                     k \in keys \ KeysOf(p), v \in vals} :
                  p \in {q \in shorter : Len(q) = n - 1}}

\* the objects of the heap a merge is called on
NumObjs == 3

MergeKeySeq == <<Str("a"), Str("items")>>
MergeInts == {1, 2}

\* the dicts over the keys of kseq, in that order
RECURSIVE CanonItems(_, _)
CanonItems(kseq, vals) ==
  IF kseq = <<>> THEN {<<>>}
  ELSE LET rest == CanonItems(Tail(kseq), vals)
       IN  rest \cup {<<[k |-> Head(kseq), v |-> v]>> \o r : v \in vals, r \in rest}

\* object i holds ints and references to later objects (no cycles); a DotDict
\* holds no reserved key
HeapObjs(i) ==
  LET vals == {IntVal(n) : n \in MergeInts} \cup {RefVal(j) : j \in (i + 1)..NumObjs}
  IN  {[type |-> t, items |-> it] :
         t \in {"dict", "DotDict"}, it \in CanonItems(MergeKeySeq, vals)}
      \ {o \in [type : {"DotDict"}, items : CanonItems(MergeKeySeq, vals)] :
           \E k \in KeysOf(o.items) : hasattr_MutableMapping(k) # "no"}

RECURSIVE HeapsFrom(_)
HeapsFrom(i) ==
  IF i > NumObjs THEN {<<>>}
  ELSE {<<o>> \o rest : o \in HeapObjs(i), rest \in HeapsFrom(i + 1)}

\* the depth of the nested dicts flattened, the entries of the flat dicts given
MaxDepth == 2
MaxFlat == 2

FlatKeySeq == <<Str("a"), Str("b")>>
FlatLeaves == {IntT(1), MapT("DotDict", <<>>), MapT("DotDict", <<[k |-> Str("a"), v |-> IntT(2)]>>)}

\* the values nested at most depth deep: leaves, and dicts of shallower values
RECURSIVE NestedVals(_)
NestedVals(depth) ==
  IF depth = 0 THEN FlatLeaves
  ELSE FlatLeaves \cup
       {MapT("dict", it) : it \in CanonItems(FlatKeySeq, NestedVals(depth - 1))}

NestedInputs == {t \in NestedVals(MaxDepth) : t.tag = "dict"}

\* a CompoundKey and a plain tuple of the same segments are one key of a dict
\* (they are equal tuples): no two keys here are
GivenKeys ==
  {CompoundKey(<<>>), CompoundKey(<<"a">>), CompoundKey(<<"a", "b">>),
   CompoundKey(<<"a", "c">>), CompoundKey(<<"a", "b", "c">>),
   CompoundKey(<<"a", "items">>), CompoundKey(<<"items", "a">>),
   Str("a"), Str("items"), Tup(<<"b", "c">>)}
GivenVals == {IntT(1), IntT(2), MapT("DotDict", <<>>)}

\* the objects (ints, mappings, containers) in a value given to to_dotdict
MaxNodes == 4

RECURSIVE ConvTrees(_)
RECURSIVE ConvForests(_)

\* the sequences of values of n objects in all, as the items of a container
ConvForests(n) ==
  IF n = 0 THEN {<<>>}
  ELSE UNION {{<<[k |-> NoKey, v |-> t]>> \o f : t \in ConvTrees(j), f \in ConvForests(n - j)} :
              j \in 1..n}

\* the values of exactly n objects: an int, and dicts, DotDicts, lists, tuples
\* and sets of smaller values.  A dict holds "a" and the reserved key "items"
\* (with an int), a DotDict never a reserved key; a set holds ints (its
\* elements are hashable)
ConvTrees(n) ==
  LET under(c) == <<[k |-> Str("a"), v |-> c]>>
      reserved == <<[k |-> Str("items"), v |-> IntT(1)]>>
  IN  (IF n = 1 THEN {IntT(1), MapT("dict", <<>>), MapT("DotDict", <<>>), MapT("set", <<>>)}
       ELSE {MapT("dict", under(c)) : c \in ConvTrees(n - 1)}
            \cup {MapT("DotDict", under(c)) : c \in ConvTrees(n - 1)})
      \cup (IF n = 2 THEN {MapT("dict", reserved), MapT("set", <<[k |-> NoKey, v |-> IntT(1)]>>)}
            ELSE IF n > 2 THEN {MapT("dict", under(c) \o reserved) : c \in ConvTrees(n - 2)}
            ELSE {})
      \cup {MapT(t, f) : t \in {"list", "tuple"}, f \in ConvForests(n - 1)}

ConvInputs == UNION {ConvTrees(n) : n \in 1..MaxNodes}

\* ------------------------------------------------------- the state
\* One record a component; a component not in use has pc "idle".
\*
\* dot, the DotDict under test.  pc: "none" (no instance yet), "live",
\* "failed" (the constructor raised: there is no instance).  m is the
\* instance's __dict__, c the __dict__ of the last copy (hasc: one was made).
\* op, arg, err record the last call: its name, the items it was asked to
\* write (or the key to delete), and the exception it raised.
DotIdle ==
  [pc |-> "idle", m |-> <<>>, c |-> <<>>, hasc |-> FALSE,
   op |-> "", arg |-> <<>>, err |-> ""]

\* mrg, a call of merge_dicts.  pc "call": merge_dicts(d1, d2) is about to run
\* on heap; "done": it returned ret or raised err, and heap is the heap it left.
MergeIdle == [pc |-> "idle", heap |-> <<>>, d1 |-> 0, d2 |-> 0, ret |-> 0, err |-> ""]

\* flt, a call of dict_to_flatdict and of flatdict_to_dict.  pc "nested":
\* dict_to_flatdict(nested) is about to run; "flat": flatdict_to_dict(flat,
\* dct_class) is about to run, on what dict_to_flatdict returned (src "nested")
\* or on a flat dict the caller built (src "given"); "done": it returned res or
\* raised err.
FlatIdle ==
  [pc |-> "idle", src |-> "", nested |-> MapT("dict", <<>>), flat |-> <<>>,
   dct_class |-> "dict", res |-> MapT("dict", <<>>), err |-> ""]

\* cnv, a call of to_dotdict.  pc "call": to_dotdict(obj) is about to run;
\* "done": it returned res or raised err.
ConvIdle == [pc |-> "idle", obj |-> IntT(0), res |-> IntT(0), err |-> ""]

\* ------------------------------------------------------- DotDict
InitDot ==
  /\ dot = [DotIdle EXCEPT !.pc = "none"]
  /\ mrg = MergeIdle /\ flt = FlatIdle /\ cnv = ConvIdle

DotConstruct(init_dict, kwargs) ==
  /\ dot.pc = "none"
  /\ LET r == DotDict__init__(init_dict, kwargs)
     IN  dot' = [dot EXCEPT !.pc = IF r.err = "" THEN "live" ELSE "failed",
                            !.m = IF r.err = "" THEN r.d ELSE <<>>,
                            !.op = "init", !.arg = init_dict \o kwargs,
                            !.err = r.err]
  /\ UNCHANGED <<mrg, flt, cnv>>

DotSetItem(key, value) ==
  /\ dot.pc = "live"
  /\ LET r == DotDict__setitem__(dot.m, key, value)
     IN  dot' = [dot EXCEPT !.m = r.d, !.op = "setitem",
                            !.arg = <<[k |-> key, v |-> value]>>, !.err = r.err]
  /\ UNCHANGED <<mrg, flt, cnv>>

DotSetAttr(attr, value) ==
  /\ dot.pc = "live"
  /\ LET r == DotDict__setattr__(dot.m, attr, value)
     IN  dot' = [dot EXCEPT !.m = r.d, !.op = "setattr",
                            !.arg = <<[k |-> attr, v |-> value]>>, !.err = r.err]
  /\ UNCHANGED <<mrg, flt, cnv>>

DotDelItem(key) ==
  /\ dot.pc = "live"
  /\ LET r == DotDict__delitem__(dot.m, key)
     IN  dot' = [dot EXCEPT !.m = r.d, !.op = "delitem",
                            !.arg = <<[k |-> key, v |-> 0]>>, !.err = r.err]
  /\ UNCHANGED <<mrg, flt, cnv>>

DotCopy ==
  /\ dot.pc = "live"
  /\ LET r == DotDict_copy(dot.m)
     IN  dot' = [dot EXCEPT !.c = IF r.err = "" THEN r.d ELSE dot.c,
                            !.hasc = IF r.err = "" THEN TRUE ELSE dot.hasc,
                            !.op = "copy", !.arg = <<>>, !.err = r.err]
  /\ UNCHANGED <<mrg, flt, cnv>>

NextDot ==
  \/ \E i \in ItemSeqs(DotKeys, DotVals, MaxInit),
        kw \in ItemSeqs(DotKeys, DotVals, MaxInit) : DotConstruct(i, kw)
  \/ \E k \in DotKeys, v \in DotVals : DotSetItem(k, v)
  \/ \E k \in DotKeys, v \in DotVals : DotSetAttr(k, v)
  \/ \E k \in DotKeys : DotDelItem(k)
  \/ DotCopy

SpecDot == InitDot /\ [][NextDot]_vars

\* ------------------------------------------------------- merge_dicts
InitMerge ==
  /\ mrg \in {[MergeIdle EXCEPT !.pc = "call", !.heap = h, !.d1 = 1, !.d2 = b] :
                h \in HeapsFrom(1), b \in {1, 2}}
  /\ dot = DotIdle /\ flt = FlatIdle /\ cnv = ConvIdle

Merge ==
  /\ mrg.pc = "call"
  /\ LET r == merge_dicts(mrg.heap, mrg.d1, mrg.d2)
     IN  mrg' = [mrg EXCEPT !.pc = "done", !.heap = r.h, !.ret = r.ret, !.err = r.err]
  /\ UNCHANGED <<dot, flt, cnv>>

NextMerge == Merge

SpecMerge == InitMerge /\ [][NextMerge]_vars

\* ------------------------------------- dict_to_flatdict, flatdict_to_dict
InitFlat ==
  /\ flt \in {[FlatIdle EXCEPT !.pc = "nested", !.src = "nested", !.nested = t] :
                t \in NestedInputs}
        \cup {[FlatIdle EXCEPT !.pc = "flat", !.src = "given", !.flat = f,
                               !.dct_class = c] :
                f \in ItemSeqs(GivenKeys, GivenVals, MaxFlat),
                c \in {"dict", "DotDict"}}
  /\ dot = DotIdle /\ mrg = MergeIdle /\ cnv = ConvIdle

Flatten ==
  /\ flt.pc = "nested"
  /\ flt' = [flt EXCEPT !.pc = "flat",
                        !.flat = dict_to_flatdict(flt.nested.items, <<>>)]
  /\ UNCHANGED <<dot, mrg, cnv>>

Unflatten ==
  /\ flt.pc = "flat"
  /\ LET r == flatdict_to_dict(flt.flat, flt.dct_class)
     IN  flt' = [flt EXCEPT !.pc = "done", !.res = r.t, !.err = r.err]
  /\ UNCHANGED <<dot, mrg, cnv>>

NextFlat == Flatten \/ Unflatten

SpecFlat == InitFlat /\ [][NextFlat]_vars

\* ------------------------------------------------------------ to_dotdict
InitConv ==
  /\ cnv \in {[ConvIdle EXCEPT !.pc = "call", !.obj = x] : x \in ConvInputs}
  /\ dot = DotIdle /\ mrg = MergeIdle /\ flt = FlatIdle

Convert ==
  /\ cnv.pc = "call"
  /\ LET r == to_dotdict(cnv.obj)
     IN  cnv' = [cnv EXCEPT !.pc = "done", !.res = r.t, !.err = r.err]
  /\ UNCHANGED <<dot, mrg, flt>>

NextConv == Convert

SpecConv == InitConv /\ [][NextConv]_vars

\* ------------------------------------------- the three transforms together
InitTransforms == InitMerge \/ InitFlat

NextTransforms == Merge \/ Flatten \/ Unflatten

SpecTransforms == InitTransforms /\ [][NextTransforms]_vars

\* ------------------------------------------------------- the whole module
Init == InitDot \/ InitMerge \/ InitFlat \/ InitConv

Next == NextDot \/ NextMerge \/ NextFlat \/ NextConv

Spec == Init /\ [][Next]_vars

\* ===================================================== merge_dicts: claims
\* the value under k, NoneVal when k is no key
ValueAt(items, k) ==
  IF IndexOf(items, k) = 0 THEN NoneVal ELSE items[IndexOf(items, k)].v

\* object r of heap h is the merge of objects a and b, as the claim defines it
RECURSIVE IsMerge(_, _, _, _)
IsMerge(h, r, a, b) ==
  /\ KeysOf(h[r].items) = KeysOf(h[a].items) \cup KeysOf(h[b].items)
  /\ \A k \in KeysOf(h[r].items) :
       LET va == ValueAt(h[a].items, k)
           vb == ValueAt(h[b].items, k)
           vr == ValueAt(h[r].items, k)
       IN  CASE vb = NoneVal -> vr = va
             [] vb # NoneVal /\ va.tag = "ref" /\ vb.tag = "ref" ->
                  vr.tag = "ref" /\ IsMerge(h, vr.n, va.n, vb.n)
             [] OTHER -> vr = vb

\* C1: whenever merge_dicts(d1, d2) returns, the result has exactly the keys
\* of d1 and of d2, and under each key k: d1[k] where k is only in d1, the
\* merge of d1[k] and d2[k] where both are mappings, d2[k] in every other case.
C1_MergeResult ==
  (mrg.pc = "done" /\ mrg.err = "") => IsMerge(mrg.heap, mrg.ret, mrg.d1, mrg.d2)

\* a merge returned where d1 and d2 hold two different mappings under one key,
\* d1 has a key d2 has not, and d2 replaces a value of d1
C1_Witness ==
  /\ mrg.pc = "done" /\ mrg.err = "" /\ mrg.d1 # mrg.d2
  /\ \E k \in KeysOf(mrg.heap[mrg.d1].items) :
       /\ ValueAt(mrg.heap[mrg.d1].items, k).tag = "ref"
       /\ ValueAt(mrg.heap[mrg.d2].items, k).tag = "ref"
       /\ ValueAt(mrg.heap[mrg.d1].items, k) # ValueAt(mrg.heap[mrg.d2].items, k)
       /\ ValueAt(mrg.heap[mrg.ret].items, k).n > NumObjs
  /\ \E k \in KeysOf(mrg.heap[mrg.d1].items) : k \notin KeysOf(mrg.heap[mrg.d2].items)

\* C2: a call of merge_dicts leaves every object that existed before it as it
\* was (d1, d2 and every mapping nested in them), whether it returns or
\* raises; what it returns is an object that did not exist before, and setting
\* a key of it changes none of the earlier objects.
C2_MergeNoMutation ==
  [][(mrg.pc = "call" /\ mrg'.pc = "done") =>
       /\ Len(mrg'.heap) >= Len(mrg.heap)
       /\ \A r \in 1..Len(mrg.heap) : mrg'.heap[r] = mrg.heap[r]
       /\ mrg'.err = "" =>
            /\ mrg'.ret \notin 1..Len(mrg.heap)
            /\ \A k \in KeysOf(mrg.heap[mrg.d1].items) \cup {Str("b")} :
                 LET w == obj_setitem(mrg'.heap, mrg'.ret, k, IntVal(0))
                 IN  \A r \in 1..Len(mrg.heap) : w.h[r] = mrg.heap[r]]_vars

\* a merge of two different objects returned after merging nested mappings
\* (it made more than one new object)
C2_Witness ==
  /\ mrg.pc = "done" /\ mrg.err = "" /\ mrg.d1 # mrg.d2
  /\ Len(mrg.heap) > NumObjs + 1

\* ========================================================= DotDict: claims
\* the names m.name reads from the instance (the fields set)
FieldsSet(m) == {k \in DotKeys : DotDict_getattr(m, k).kind = "value"}

\* the keys iteration yields
Iterated(m) == {DotDict__iter__(m)[i] : i \in 1..Len(DotDict__iter__(m))}

WroteReserved(d) ==
  /\ d.op \in {"init", "setitem", "setattr"}
  /\ \E i \in 1..Len(d.arg) : hasattr_MutableMapping(d.arg[i].k) = "yes"

\* C4: a key write, a field write or a construction that sets a reserved key
\* raises ValueError (the code's error for a reserved key) and leaves the
\* storage as it was (a failed construction leaves no instance); no reserved
\* name is ever a key of an instance.
C4_ReservedKeyRejected ==
  [][/\ WroteReserved(dot') =>
          /\ dot'.err = "ValueError"
          /\ dot'.m = dot.m
          /\ dot'.pc = IF dot'.op = "init" THEN "failed" ELSE dot.pc
     /\ \A k \in KeysOf(dot'.m) : hasattr_MutableMapping(k) = "no"]_vars

\* a key write of a reserved key was refused on an instance that holds keys
C4_Witness ==
  /\ dot.pc = "live" /\ dot.op = "setitem" /\ dot.err = "ValueError"
  /\ hasattr_MutableMapping(dot.arg[1].k) = "yes"
  /\ Len(dot.m) >= 2

\* C10: copy() of any instance returns a new instance that holds exactly the
\* instance's key-value pairs.
C10_CopyOfAnyInstance ==
  dot.op = "copy" => (dot.err = "" /\ dot.hasc /\ dot.c = dot.m)

\* C10, what does hold: copy() of an instance that has no key "copy" returns a
\* new instance that holds exactly the instance's key-value pairs.
C10_CopyWithoutCopyKey ==
  (dot.op = "copy" /\ Str("copy") \notin KeysOf(dot.m)) =>
     (dot.err = "" /\ dot.hasc /\ dot.c = dot.m)

\* ============================ dict_to_flatdict, flatdict_to_dict: claims
\* the value under k of a mapping's items (k is a key of it)
Under(items, k) == items[IndexOf(items, k)].v

IsMap(t) == t.tag \in {"dict", "DotDict"}

\* structural equality: equal ints, or mappings of one type with the same keys
\* and structurally equal values, in whatever order
RECURSIVE StructEq(_, _)
StructEq(x, y) ==
  IF IsMap(x) /\ IsMap(y)
  THEN /\ x.tag = y.tag
       /\ KeysOf(x.items) = KeysOf(y.items)
       /\ \A k \in KeysOf(x.items) : StructEq(Under(x.items, k), Under(y.items, k))
  ELSE x = y

\* no mapping nested in t, at any depth, is empty
RECURSIVE NoEmptyNested(_)
NoEmptyNested(t) ==
  \A i \in 1..Len(t.items) :
    IsMap(t.items[i].v) => (t.items[i].v.items # <<>> /\ NoEmptyNested(t.items[i].v))

\* C5: for every nested dict that holds no empty nested mapping (the empty
\* dict itself included), flatdict_to_dict(dict_to_flatdict(m)) returns a dict
\* structurally equal to m.
C5_RoundTrip ==
  (flt.pc = "done" /\ flt.src = "nested" /\ NoEmptyNested(flt.nested)) =>
     (flt.err = "" /\ StructEq(flt.res, flt.nested))

\* a round trip of a dict that holds an int and a dict, and in that a DotDict
C5_Witness ==
  /\ flt.pc = "done" /\ flt.src = "nested" /\ NoEmptyNested(flt.nested)
  /\ flt.err = "" /\ Len(flt.nested.items) = 2
  /\ \E i \in 1..Len(flt.nested.items) :
       /\ flt.nested.items[i].v.tag = "dict"
       /\ \E j \in 1..Len(flt.nested.items[i].v.items) :
            flt.nested.items[i].v.items[j].v.tag = "DotDict"
  /\ \E i \in 1..Len(flt.nested.items) : flt.nested.items[i].v.tag = "int"

\* the entries [k, v] a flat dict of items must hold: one for each value
\* reached from items through values of the types in descend (prefix: the keys
\* passed so far) that is not of such a type itself
RECURSIVE LeafEntries(_, _, _)
LeafEntries(items, prefix, descend) ==
  UNION {IF items[i].v.tag \in descend
         THEN LeafEntries(items[i].v.items, prefix \o items[i].k.segs, descend)
         ELSE {[k |-> CompoundKey(prefix \o items[i].k.segs), v |-> items[i].v]} :
         i \in 1..Len(items)}

EntriesOf(items) == {items[i] : i \in 1..Len(items)}

\* C6 as stated: the flat dict has exactly one entry a leaf, a leaf being a
\* value that is neither a dict nor a DotDict, and both are descended into.
C6_LeavesAreNonMappings ==
  (flt.src = "nested" /\ flt.pc \in {"flat", "done"}) =>
     /\ EntriesOf(flt.flat) = LeafEntries(flt.nested.items, <<>>, {"dict", "DotDict"})
     /\ Len(flt.flat) = Cardinality(EntriesOf(flt.flat))

\* C6 amended: the flat dict has exactly one entry a leaf, a leaf being a
\* value that is no dict (a DotDict is a leaf, kept whole as a value); its key is
\* the CompoundKey of the keys from the root, its value the leaf; only dicts are
\* descended into, and an empty nested dict gives no entry.
C6_LeavesAreNonDicts ==
  (flt.src = "nested" /\ flt.pc \in {"flat", "done"}) =>
     /\ EntriesOf(flt.flat) = LeafEntries(flt.nested.items, <<>>, {"dict"})
     /\ Len(flt.flat) = Cardinality(EntriesOf(flt.flat))
     /\ \A i \in 1..Len(flt.flat) :
          flt.flat[i].k.kind = "ck" /\ flt.flat[i].v.tag # "dict"

\* a dict was flattened that holds an empty dict, a DotDict two levels down
\* and an int
C6_Witness ==
  /\ flt.src = "nested" /\ flt.pc = "flat"
  /\ \E i \in 1..Len(flt.nested.items) : flt.nested.items[i].v = MapT("dict", <<>>)
  /\ \E i \in 1..Len(flt.flat) :
       Len(flt.flat[i].k.segs) = 2 /\ flt.flat[i].v.tag = "DotDict"

\* the place of a flat dict's key in the result: the segments of a
\* CompoundKey, a str key as its one segment; a plain tuple is no place a
\* CompoundKey reaches
PathOf(k) == IF k.kind = "tuple" THEN <<"(tuple)">> \o k.segs ELSE k.segs

ProperPrefix(p, q) == Len(p) < Len(q) /\ SubSeq(q, 1, Len(p)) = p

\* no CompoundKey is empty, and none goes through the place of an earlier entry
PrefixFree(flat) ==
  /\ \A i \in 1..Len(flat) : flat[i].k.kind = "ck" => flat[i].k.segs # <<>>
  /\ \A i \in 1..Len(flat), j \in 1..Len(flat) :
       (i < j /\ flat[j].k.kind = "ck") =>
          ~ProperPrefix(PathOf(flat[i].k), PathOf(flat[j].k))

\* the objects reached from object r of heap h, r included
RECURSIVE ReachFrom(_, _)
ReachFrom(h, r) ==
  {r} \cup UNION {ReachFrom(h, h[r].items[i].v.n) :
                    i \in {j \in 1..Len(h[r].items) : h[r].items[j].v.tag = "ref"}}

\* C7 as stated, read in the claim's favour (a ValueError, the reserved-key
\* error, allowed everywhere): no call of merge_dicts or of flatdict_to_dict
\* raises any other error.
C7_NoOtherError ==
  /\ mrg.pc = "done" => mrg.err \in {"", "ValueError"}
  /\ flt.pc = "done" => flt.err \in {"", "ValueError"}

\* C7, what does hold: merge_dicts returns for every base that is a dict with
\* only dicts nested in it, whatever the override; flatdict_to_dict with the
\* default mapping type returns for every flat dict in which no CompoundKey is
\* empty and none goes through the place of an earlier entry - every dict that
\* dict_to_flatdict returns is one.
C7_TotalOnPlainInputs ==
  /\ (mrg.pc = "done" /\ \A r \in ReachFrom(mrg.heap, mrg.d1) : mrg.heap[r].type = "dict")
       => mrg.err = ""
  /\ (flt.pc \in {"flat", "done"} /\ flt.src = "nested") => PrefixFree(flt.flat)
  /\ (flt.pc = "done" /\ flt.dct_class = "dict" /\ PrefixFree(flt.flat))
       => flt.err = ""

\* after is before with v set at the end of the path segs, every mapping
\* missing on the way made new, empty and of type dct_class, every one there
\* walked into, and nothing else changed
RECURSIVE SetAlong(_, _, _, _, _)
SetAlong(before, after, segs, v, dct_class) ==
  LET k == Str(segs[1])
  IN  /\ IsMap(after) /\ after.tag = before.tag
      /\ KeysOf(after.items) = KeysOf(before.items) \cup {k}
      /\ \A o \in KeysOf(before.items) \ {k} :
           Under(after.items, o) = Under(before.items, o)
      /\ IF Len(segs) = 1 THEN Under(after.items, k) = v
         ELSE SetAlong(IF k \in KeysOf(before.items) THEN Under(before.items, k)
                       ELSE MapT(dct_class, <<>>),
                       Under(after.items, k), Tail(segs), v, dct_class)

\* C8: flatdict_to_dict takes the entries in the flat dict's order.  The root
\* of what it returns is of the mapping type asked for, empty for an empty flat
\* dict; and what it returns is what it returns for the entries but the last,
\* with the last entry's value set along its CompoundKey (new mappings of the
\* type asked for where the path has none, existing ones walked into), or
\* under its key at the top when the key is no CompoundKey.
C8_UnflattenEntryByEntry ==
  (flt.pc = "done" /\ flt.err = "") =>
     /\ flt.res.tag = flt.dct_class
     /\ flt.flat = <<>> => flt.res.items = <<>>
     /\ flt.flat # <<>> =>
          LET n == Len(flt.flat)
              before == flatdict_to_dict(SubSeq(flt.flat, 1, n - 1), flt.dct_class)
              last == flt.flat[n]
          IN  /\ before.err = ""
              /\ IF last.k.kind = "ck"
                 THEN SetAlong(before.t, flt.res, last.k.segs, last.v, flt.dct_class)
                 ELSE /\ flt.res.tag = before.t.tag
                      /\ KeysOf(flt.res.items) = KeysOf(before.t.items) \cup {last.k}
                      /\ Under(flt.res.items, last.k) = last.v
                      /\ \A o \in KeysOf(before.t.items) \ {last.k} :
                           Under(flt.res.items, o) = Under(before.t.items, o)

\* flatdict_to_dict, asked for DotDicts, returned for a flat dict whose second
\* CompoundKey walks into the mapping made for the first
C8_Witness ==
  /\ flt.pc = "done" /\ flt.err = "" /\ flt.src = "given" /\ flt.dct_class = "DotDict"
  /\ Len(flt.flat) = 2
  /\ flt.flat[1].k = CompoundKey(<<"a", "b", "c">>)
  /\ flt.flat[2].k = CompoundKey(<<"a", "c">>)

\* ====================================================== to_dotdict: claims
IsContainer(t) == t.tag \in {"list", "tuple", "set"}

\* y is the conversion of x, the mappings of the types in from converted: a
\* DotDict of the same keys in the same order with the values converted, a
\* container of the same type with the elements converted, x itself otherwise
RECURSIVE IsConversion(_, _, _)
IsConversion(x, y, from) ==
  IF x.tag \in from \/ IsContainer(x)
  THEN /\ y.tag = (IF IsContainer(x) THEN x.tag ELSE "DotDict")
       /\ Len(y.items) = Len(x.items)
       /\ \A i \in 1..Len(x.items) :
            /\ y.items[i].k = x.items[i].k
            /\ IsConversion(x.items[i].v, y.items[i].v, from)
  ELSE y = x

\* no dict is reached from t through the values of mappings and the elements
\* of containers
RECURSIVE NoPlainDict(_)
NoPlainDict(t) ==
  /\ t.tag # "dict"
  /\ (IsMap(t) \/ IsContainer(t)) =>
        \A i \in 1..Len(t.items) : NoPlainDict(t.items[i].v)

\* a dict with a reserved key is among those to_dotdict converts: those
\* reached from t through the values of dicts and the elements of containers
RECURSIVE ConvertsReserved(_)
ConvertsReserved(t) ==
  /\ t.tag = "dict" \/ IsContainer(t)
  /\ \/ t.tag = "dict" /\ \E i \in 1..Len(t.items) :
                             hasattr_MutableMapping(t.items[i].k) = "yes"
     \/ \E i \in 1..Len(t.items) : ConvertsReserved(t.items[i].v)

====
